---- MODULE Spec2Model ----
(***************************************************************************)
(* Model of src/src/components/MicrophoneWaveVisualizer.tsx: the capture   *)
(* controller (startRecording / stopRecording / unmount cleanup) and the   *)
(* per-frame analysis loop (analyzeAudio).                                 *)
(*                                                                         *)
(* React state is modelled by the variables isRecording, audioLevel, pitch *)
(* and isPermissionGranted, the refs by the variables of the same name.    *)
(* The browser is modelled by: the getUserMedia calls in flight, the input *)
(* streams whose tracks are not stopped, the AudioContexts that are not    *)
(* closed, and the requestAnimationFrame callbacks that are scheduled.     *)
(* Handlers run to completion (single UI thread), so each is one action.   *)
(* Numbers that JavaScript computes as floats are kept as exact fractions  *)
(* [n, d], not reduced; d = 0 stands for the NaN that 0/0 yields.          *)
(***************************************************************************)
EXTENDS Integers, Sequences, FiniteSets, TLC

VARIABLES
    isRecording,          \* useState(false)
    audioLevel,           \* useState(0)
    pitch,                \* useState(0)
    isPermissionGranted,  \* useState(false)
    audioContextRef,      \* id of the referenced AudioContext, Null if none
    analyserRef,          \* id of the context whose analyser is referenced
    streamRef,            \* id of the referenced MediaStream, Null if none
    animationRef,         \* id of the referenced frame request, Null if none
    dataArrayRef,         \* the Uint8Array (a sequence), NoArray if none
    pending,              \* getUserMedia calls in flight, issued since the last stopRecording
    pendingStopped,       \* getUserMedia calls in flight that a stopRecording has overtaken
    liveStreams,          \* granted streams whose tracks have not been stopped
    openContexts,         \* AudioContexts created and not closed
    frames,               \* scheduled, not yet run, not cancelled frame callbacks
    sampleRate,           \* AudioContext.sampleRate of the output device
    mounted,              \* the component is mounted
    alertShown,           \* the handler that ran last raised the alert dialog
    lastOp                \* the handler that ran last

vars == <<isRecording, audioLevel, pitch, isPermissionGranted, audioContextRef,
          analyserRef, streamRef, animationRef, dataArrayRef, pending,
          pendingStopped, liveStreams, openContexts, frames, sampleRate,
          mounted, alertShown, lastOp>>

-----------------------------------------------------------------------------
(* Bounds of the model *)

\* input streams that may be live or in acquisition at once
MaxStreams == 2
\* how many bins of a sampled spectrum may stand out of the background
MaxPeaks == 1
\* the bins of the analyser. The program has fftSize / 2 = 1024 of them
\* (line 54); the model keeps the analysis but runs it on shorter buffers,
\* with sample rates that put the voice band at the same bins.
MaxBins == 64

-----------------------------------------------------------------------------
(* Program constants *)

MaxByte == 255
VoiceLowHz == 80
VoiceHighHz == 1000

Null == 0
NoArray == <<>>

\* line 57: analyserRef.current.frequencyBinCount
frequencyBinCount == MaxBins

-----------------------------------------------------------------------------
(* Exact fractions for the JavaScript numbers *)

\* the number n / d; 0 / 0 is NaN, which d = 0 stands for
Frac(n, d) == [n |-> n, d |-> d]

Number(k) == [n |-> k, d |-> 1]

\* the JavaScript operator x / y
Div(x, y) == Frac(x.n * y.d, x.d * y.n)

\* Math.floor of a non-negative finite number
Floor(x) == x.n \div x.d

-----------------------------------------------------------------------------
(* analyzeAudio, lines 91-122: the computation on one sampled spectrum *)

\* dataArrayRef.current.reduce((sum, value) => sum + value, 0), line 98:
\* the rounds from element i on, with the sum so far
RECURSIVE Reduce(_, _, _)
Reduce(B, i, sum) ==
    IF i > Len(B) THEN sum ELSE Reduce(B, i + 1, sum + B[i])

\* line 98: const average = reduce(...) / length
Average(B) == Div(Number(Reduce(B, 1, 0)), Number(Len(B)))

\* LevelOf with the mean scaled by 256, the number of byte values
LevelOf_Div256(B) == Div(Average(B), Number(MaxByte + 1))

\* line 99: setAudioLevel(average / 255)
LevelOf(B) == Div(Average(B), Number(MaxByte))

\* lines 107-108: Math.floor(hz * length / (sampleRate / 2))
BinIndex(hz, length, rate) ==
    Floor(Div(Number(hz * length), Div(Number(rate), Number(2))))

StartIndex(B, rate) == BinIndex(VoiceLowHz, Len(B), rate)
EndIndex(B, rate) == BinIndex(VoiceHighHz, Len(B), rate)

\* lines 102-115: the for loop; bin i of the Uint8Array is B[i + 1].
\* Returns maxIndex.
RECURSIVE Scan(_, _, _, _, _)
Scan(B, i, endIndex, maxValue, maxIndex) ==
    IF i < endIndex /\ i < Len(B)
    THEN IF B[i + 1] > maxValue
         THEN Scan(B, i + 1, endIndex, B[i + 1], i)
         ELSE Scan(B, i + 1, endIndex, maxValue, maxIndex)
    ELSE maxIndex

MaxIndex(B, rate) == Scan(B, StartIndex(B, rate), EndIndex(B, rate), 0, 0)

\* line 118: const pitchValue = maxIndex / (endIndex - startIndex)
PitchOf(B, rate) ==
    Div(Number(MaxIndex(B, rate)),
        Number(EndIndex(B, rate) - StartIndex(B, rate)))

-----------------------------------------------------------------------------
(* What the browser may hand to the component *)

\* AudioContext.sampleRate values, scaled like the buffer: with MaxBins bins,
\* 2756 Hz and 3000 Hz give the bin widths that 44100 Hz (line 37) and
\* 48000 Hz give with 1024 bins, so the voice band is bins 3 to 45 and 3 to
\* 41; at 256000 Hz both bounds of the band fall into bin 0.
SampleRates == {2756, 3000, 256000}

Bins == 0 .. frequencyBinCount - 1

\* the bins at which a sampled spectrum may stand out: the ends of the
\* buffer and the bins at the edges of each voice band
PeakBins ==
    Bins \cap
        ({0, frequencyBinCount - 1} \cup
         UNION {{BinIndex(VoiceLowHz, frequencyBinCount, r),
                 BinIndex(VoiceHighHz, frequencyBinCount, r) - 1,
                 BinIndex(VoiceHighHz, frequencyBinCount, r)} : r \in SampleRates})

Backgrounds == {0, MaxByte}
PeakLevels == {200, MaxByte}

PeakMaps(k) ==
    UNION {[P -> PeakLevels] : P \in {Q \in SUBSET PeakBins : Cardinality(Q) <= k}}

\* the byte spectrum with magnitude bg everywhere but at the bins of pk
Spectrum(bg, pk) ==
    [i \in 1 .. frequencyBinCount |->
        IF (i - 1) \in DOMAIN pk THEN pk[i - 1] ELSE bg]

\* what getByteFrequencyData (line 95) may write into the buffer
Spectra == {Spectrum(bg, pk) : bg \in Backgrounds, pk \in PeakMaps(MaxPeaks)}

Silence == Spectrum(0, <<>>)

\* the spectra the frames of the life-cycle specification sample: silence
\* and a tone in the last bin of the voice band of the requested rate
FrameSpectra ==
    {Silence,
     Spectrum(0, (BinIndex(VoiceHighHz, frequencyBinCount, 2756) - 1) :> 200)}

\* a handle (stream, context or frame id) that is not in use
Fresh(used) == CHOOSE k \in 1 .. Cardinality(used) + 1 : k \notin used

-----------------------------------------------------------------------------
(* The component *)

Op(name, late) == [op |-> name, late |-> late]

\* lines 11-20: the state of a freshly mounted component
Init ==
    /\ isRecording = FALSE
    /\ audioLevel = Number(0)
    /\ pitch = Number(0)
    /\ isPermissionGranted = FALSE
    /\ audioContextRef = Null
    /\ analyserRef = Null
    /\ streamRef = Null
    /\ animationRef = Null
    /\ dataArrayRef = NoArray
    /\ pending = 0
    /\ pendingStopped = 0
    /\ liveStreams = {}
    /\ openContexts = {}
    /\ frames = {}
    /\ sampleRate \in SampleRates
    /\ mounted = TRUE
    /\ alertShown = FALSE
    /\ lastOp = Op("mount", FALSE)

\* analyzeAudio with line 121 left out: the frame is analysed but no further
\* one is requested
analyzeAudio_RunsOnce(an, arr, ctx, anim, lvl, pit, queue, B) ==
    IF an = Null \/ arr = NoArray
    THEN [arr |-> arr, level |-> lvl, pitch |-> pit, anim |-> anim, queue |-> queue]
    ELSE IF ctx = Null
    THEN [arr |-> B, level |-> LevelOf(B), pitch |-> pit, anim |-> anim,
          queue |-> queue]
    ELSE [arr |-> B, level |-> LevelOf(B), pitch |-> PitchOf(B, sampleRate),
          anim |-> anim, queue |-> queue]

\* lines 91-122: analyzeAudio, run with the refs an (analyser), arr (buffer),
\* ctx (context), anim (frame handle), the published lvl and pit, the
\* scheduled callbacks queue, when the analyser reports the spectrum B.
\* Yields the buffer, the published signals, the handle and the queue after it.
analyzeAudio(an, arr, ctx, anim, lvl, pit, queue, B) ==
    IF an = Null \/ arr = NoArray
    THEN [arr |-> arr, level |-> lvl, pitch |-> pit, anim |-> anim, queue |-> queue]
    ELSE IF ctx = Null
    THEN [arr |-> B, level |-> LevelOf(B), pitch |-> pit, anim |-> anim,
          queue |-> queue]
    ELSE LET id == Fresh(queue \cup {anim})
         IN  [arr |-> B, level |-> LevelOf(B), pitch |-> PitchOf(B, sampleRate),
              anim |-> id, queue |-> queue \cup {id}]

\* stopRecording without the null checks of lines 71, 76 and 81: with no
\* stream to stop it throws at once
stopRecording_Unguarded ==
    /\ streamRef # Null /\ audioContextRef # Null /\ animationRef # Null
    /\ liveStreams' = liveStreams \ {streamRef}
    /\ streamRef' = Null
    /\ openContexts' = openContexts \ {audioContextRef}
    /\ audioContextRef' = Null
    /\ frames' = frames \ {animationRef}
    /\ animationRef' = Null
    /\ isRecording' = FALSE
    /\ audioLevel' = Number(0)
    /\ pitch' = Number(0)
    /\ pendingStopped' = pendingStopped + pending
    /\ pending' = 0
    /\ alertShown' = FALSE
    /\ UNCHANGED <<isPermissionGranted, analyserRef, dataArrayRef, sampleRate>>

\* lines 70-89: stopRecording. An acquisition still in flight is not touched;
\* it is counted from now on as overtaken by a stop.
stopRecording ==
    /\ liveStreams' = liveStreams \ {streamRef}
    /\ streamRef' = Null
    /\ openContexts' = openContexts \ {audioContextRef}
    /\ audioContextRef' = Null
    /\ frames' = frames \ {animationRef}
    /\ animationRef' = Null
    /\ isRecording' = FALSE
    /\ audioLevel' = Number(0)
    /\ pitch' = Number(0)
    /\ pendingStopped' = pendingStopped + pending
    /\ pending' = 0
    /\ alertShown' = FALSE
    /\ UNCHANGED <<isPermissionGranted, analyserRef, dataArrayRef, sampleRate>>

\* lines 22-28 and 249-259: the toggle or the Start button, shown while
\* isRecording is false, calls startRecording, which runs up to the await of
\* getUserMedia (lines 31-39)
ClickStart ==
    /\ mounted
    /\ ~isRecording
    /\ pending + pendingStopped + Cardinality(liveStreams) < MaxStreams
    /\ pending' = pending + 1
    /\ alertShown' = FALSE
    /\ lastOp' = Op("start", FALSE)
    /\ UNCHANGED <<isRecording, audioLevel, pitch, isPermissionGranted,
                   audioContextRef, analyserRef, streamRef, animationRef,
                   dataArrayRef, pendingStopped, liveStreams, openContexts,
                   frames, sampleRate, mounted>>

\* lines 22-28 and 261-267: the toggle or the Stop button, shown while
\* isRecording is true, calls stopRecording
ClickStop ==
    /\ mounted
    /\ isRecording
    /\ stopRecording
    /\ lastOp' = Op("stop", FALSE)
    /\ UNCHANGED mounted

\* lines 124-128: the effect's cleanup calls stopRecording on unmount
Unmount ==
    /\ mounted
    /\ mounted' = FALSE
    /\ stopRecording
    /\ lastOp' = Op("unmount", FALSE)

\* one getUserMedia call in flight settles; late says whether a stopRecording
\* ran since it was issued
Settle(late) ==
    /\ IF late THEN pendingStopped > 0 ELSE pending > 0
    /\ pending' = IF late THEN pending ELSE pending - 1
    /\ pendingStopped' = IF late THEN pendingStopped - 1 ELSE pendingStopped

\* Rejected with a catch block that asks for the device again
Rejected_Retries(late) ==
    /\ IF late THEN pendingStopped > 0 ELSE pending > 0
    /\ alertShown' = TRUE
    /\ lastOp' = Op("rejected", late)
    /\ UNCHANGED <<isRecording, audioLevel, pitch, isPermissionGranted,
                   audioContextRef, analyserRef, streamRef, animationRef,
                   dataArrayRef, pending, pendingStopped, liveStreams,
                   openContexts, frames, sampleRate, mounted>>

\* lines 33 and 64-67: getUserMedia rejects, the catch block reports it
Rejected(late) ==
    /\ Settle(late)
    /\ alertShown' = TRUE
    /\ lastOp' = Op("rejected", late)
    /\ UNCHANGED <<isRecording, audioLevel, pitch, isPermissionGranted,
                   audioContextRef, analyserRef, streamRef, animationRef,
                   dataArrayRef, liveStreams, openContexts, frames, sampleRate,
                   mounted>>

\* Granted with line 42 left out: the grant is not recorded
Granted_GrantNotRecorded(late, fault, B) ==
    /\ Settle(late)
    /\ \E stream \in {Fresh(liveStreams \cup {streamRef})},
          ctx \in {Fresh(openContexts \cup {audioContextRef, analyserRef})} :
       \E a \in {analyzeAudio(ctx, B, ctx, animationRef, audioLevel, pitch,
                              frames, B)} :
           /\ streamRef' = stream
           /\ liveStreams' = liveStreams \cup {stream}
           /\ IF fault = "context"
              THEN /\ alertShown' = TRUE
                   /\ lastOp' = Op("failed", late)
                   /\ UNCHANGED <<audioContextRef, analyserRef, openContexts,
                                  dataArrayRef, isRecording, audioLevel, pitch,
                                  animationRef, frames>>
              ELSE /\ audioContextRef' = ctx
                   /\ analyserRef' = ctx
                   /\ openContexts' = openContexts \cup {ctx}
                   /\ IF fault = "source"
                      THEN /\ alertShown' = TRUE
                           /\ lastOp' = Op("failed", late)
                           /\ UNCHANGED <<dataArrayRef, isRecording, audioLevel,
                                          pitch, animationRef, frames>>
                      ELSE /\ isRecording' = TRUE
                           /\ dataArrayRef' = a.arr
                           /\ audioLevel' = a.level
                           /\ pitch' = a.pitch
                           /\ animationRef' = a.anim
                           /\ frames' = a.queue
                           /\ alertShown' = FALSE
                           /\ lastOp' = Op("granted", late)
    /\ UNCHANGED <<sampleRate, mounted, isPermissionGranted>>

\* lines 41-67: getUserMedia resolves with a stream and startRecording runs on.
\* fault says which call throws, if any: "context" the AudioContext
\* constructor (line 45), "source" createMediaStreamSource (line 50).
\* B is the spectrum the first analyzeAudio call (line 62) samples.
Granted(late, fault, B) ==
    /\ Settle(late)
    /\ \E stream \in {Fresh(liveStreams \cup {streamRef})},
          ctx \in {Fresh(openContexts \cup {audioContextRef, analyserRef})} :
       \E a \in {analyzeAudio(ctx, B, ctx, animationRef, audioLevel, pitch,
                              frames, B)} :
           /\ streamRef' = stream
           /\ liveStreams' = liveStreams \cup {stream}
           /\ isPermissionGranted' = TRUE
           /\ IF fault = "context"
              THEN /\ alertShown' = TRUE
                   /\ lastOp' = Op("failed", late)
                   /\ UNCHANGED <<audioContextRef, analyserRef, openContexts,
                                  dataArrayRef, isRecording, audioLevel, pitch,
                                  animationRef, frames>>
              ELSE /\ audioContextRef' = ctx
                   /\ analyserRef' = ctx
                   /\ openContexts' = openContexts \cup {ctx}
                   /\ IF fault = "source"
                      THEN /\ alertShown' = TRUE
                           /\ lastOp' = Op("failed", late)
                           /\ UNCHANGED <<dataArrayRef, isRecording, audioLevel,
                                          pitch, animationRef, frames>>
                      ELSE /\ isRecording' = TRUE
                           /\ dataArrayRef' = a.arr
                           /\ audioLevel' = a.level
                           /\ pitch' = a.pitch
                           /\ animationRef' = a.anim
                           /\ frames' = a.queue
                           /\ alertShown' = FALSE
                           /\ lastOp' = Op("granted", late)
    /\ UNCHANGED <<sampleRate, mounted>>

\* line 121: the browser runs the scheduled callback f, which is analyzeAudio;
\* B is the spectrum the analyser reports
Frame(f, B) ==
    /\ f \in frames
    /\ \E a \in {analyzeAudio(analyserRef, dataArrayRef, audioContextRef,
                             animationRef, audioLevel, pitch, frames \ {f}, B)} :
           /\ dataArrayRef' = a.arr
           /\ audioLevel' = a.level
           /\ pitch' = a.pitch
           /\ animationRef' = a.anim
           /\ frames' = a.queue
    /\ alertShown' = FALSE
    /\ lastOp' = Op(IF audioContextRef = Null THEN "stray" ELSE "frame", FALSE)
    /\ UNCHANGED <<isRecording, isPermissionGranted, audioContextRef, analyserRef,
                   streamRef, pending, pendingStopped, liveStreams, openContexts,
                   sampleRate, mounted>>

\* StatusIndicator without the inner conditional of line 280
StatusIndicator_IgnoresPermission(recording, granted) ==
    IF recording
    THEN {"Recording..."}
    ELSE {"Click start to access microphone"}

\* lines 271-295: the texts the Status Indicator renders for the two state
\* values it reads
StatusIndicator(recording, granted) ==
    IF recording
    THEN {"Recording..."}
    ELSE IF granted
         THEN {"Ready to record"}
         ELSE {"Click start to access microphone"}

Faults == {"none", "context", "source"}

Next ==
    \/ ClickStart
    \/ ClickStop
    \/ Unmount
    \/ \E late \in BOOLEAN : Rejected(late)
    \/ \E late \in BOOLEAN, fault \in Faults, B \in FrameSpectra :
          Granted(late, fault, B)
    \/ \E f \in frames, B \in FrameSpectra : Frame(f, B)

Spec == Init /\ [][Next]_vars

\* The behaviours in which no call of startRecording throws after the grant
CleanNext ==
    \/ ClickStart
    \/ ClickStop
    \/ Unmount
    \/ \E late \in BOOLEAN : Rejected(late)
    \/ \E late \in BOOLEAN, B \in FrameSpectra : Granted(late, "none", B)
    \/ \E f \in frames, B \in FrameSpectra : Frame(f, B)

CleanSpec == Init /\ [][CleanNext]_vars

\* The browser runs a scheduled frame callback before the next repaint; the
\* user may stay idle for ever, and a permission prompt may stay unanswered.
FairSpec ==
    /\ CleanSpec
    /\ WF_vars(\E f \in frames, B \in FrameSpectra : Frame(f, B))

\* Sessions one after the other: the Start button is pressed only while no
\* acquisition is in flight. Frames are delivered fairly, as in FairSpec.
LoopNext ==
    \/ ClickStart /\ pending + pendingStopped = 0
    \/ ClickStop
    \/ Unmount
    \/ \E late \in BOOLEAN : Rejected(late)
    \/ \E late \in BOOLEAN, B \in FrameSpectra : Granted(late, "none", B)
    \/ \E f \in frames, B \in FrameSpectra : Frame(f, B)

LoopSpec ==
    /\ Init /\ [][LoopNext]_vars
    /\ WF_vars(\E f \in frames, B \in FrameSpectra : Frame(f, B))

\* The analysis alone: one session is started and granted, and every frame
\* samples any spectrum of Spectra.
AnalysisNext ==
    \/ ClickStart /\ pending = 0
    \/ \E B \in Spectra : Granted(FALSE, "none", B)
    \/ \E f \in frames, B \in Spectra : Frame(f, B)

AnalysisSpec == Init /\ [][AnalysisNext]_vars

-----------------------------------------------------------------------------
(* Properties *)

IsZero(x) == x.n = 0 /\ x.d > 0

\* x is a number of the interval [0, 1]
InUnit(x) == x.d > 0 /\ 0 <= x.n /\ x.n <= x.d

\* the voice band of the current device, as bins [BandStart, BandEnd)
BandStart == BinIndex(VoiceLowHz, frequencyBinCount, sampleRate)
BandEnd == BinIndex(VoiceHighHz, frequencyBinCount, sampleRate)

\* the handler that ran last was analyzeAudio, got past both guards and
\* published a pitch
Analysed == lastOp.op \in {"granted", "frame"}

\* C1: whenever capturing is false, level and pitch are 0 and no frame
\* callback is scheduled (once stop has run, no analysis tick runs or
\* publishes until the next successful start)
C1_StoppedIsQuiet ==
    ~isRecording => IsZero(audioLevel) /\ IsZero(pitch) /\ frames = {}

\* C2: when an acquisition that a stop has overtaken is granted, then
\* without any user action the stream and the context it brought are
\* released, no frame loop runs and capturing is false, eventually
C2_LateGrantCleanedUp ==
    (lastOp = Op("granted", TRUE))
        ~> (/\ liveStreams = {}
            /\ openContexts = {}
            /\ frames = {}
            /\ ~isRecording)

\* C3: after teardown no un-stopped stream, no open context and no
\* scheduled frame callback exists
C3_NothingOutlivesUnmount ==
    ~mounted => liveStreams = {} /\ openContexts = {} /\ frames = {}

\* C4: the sample buffer, the context and the analyser are referenced
\* exactly when capturing is true
C4_BufferAndContextIffCapturing ==
    /\ (dataArrayRef # NoArray) <=> isRecording
    /\ (audioContextRef # Null) <=> isRecording
    /\ (analyserRef # Null) <=> isRecording

\* C5: when the voice band of the device is not empty, the published level
\* and pitch are numbers of [0, 1]
C5_SignalsInUnit ==
    BandStart < BandEnd => InUnit(audioLevel) /\ InUnit(pitch)

\* the handler that ran last was analyzeAudio and sampled a spectrum
Sampled == lastOp.op \in {"granted", "frame", "stray"}

\* the bins of the buffer that lie in the voice band
BandBins == {i \in Bins : BandStart <= i /\ i < BandEnd}

\* the lowest bin of the voice band at which the sampled spectrum has its
\* maximum over the band
LoudestBin ==
    CHOOSE m \in BandBins :
        \A i \in BandBins :
            \/ dataArrayRef[i + 1] < dataArrayRef[m + 1]
            \/ dataArrayRef[i + 1] = dataArrayRef[m + 1] /\ m <= i

\* C6: with a non-empty voice band, an analysis publishes
\* pitch = (m - startIndex) / (endIndex - startIndex), m the lowest bin of
\* the band at which the buffer has its maximum over the band
C6_PitchIsBandArgmax ==
    (Analysed /\ BandStart < BandEnd /\ BandBins # {}) =>
        /\ pitch.d > 0
        /\ pitch.n * (BandEnd - BandStart) = (LoudestBin - BandStart) * pitch.d

\* C7: with an empty voice band, an analysis publishes pitch = 0 (and so
\* does not divide by endIndex - startIndex = 0)
C7_EmptyBandPitchZero ==
    (Analysed /\ BandEnd <= BandStart) => IsZero(pitch)

\* the sum of the elements of B
RECURSIVE Total(_)
Total(B) == IF B = <<>> THEN 0 ELSE Head(B) + Total(Tail(B))

\* C8: an analysis of the buffer B of length N publishes
\* level = sum(B) / (255 * N), a number of [0, 1]
C8_LevelIsMean ==
    Sampled =>
        /\ audioLevel.d > 0
        /\ audioLevel.n * (MaxByte * Len(dataArrayRef))
               = Total(dataArrayRef) * audioLevel.d
        /\ InUnit(audioLevel)

\* a frame sampled a spectrum that is neither silent nor at full scale
C8_Witness ==
    /\ lastOp.op = "frame"
    /\ isRecording
    /\ 0 < Total(dataArrayRef)
    /\ Total(dataArrayRef) < MaxByte * Len(dataArrayRef)
    /\ 0 < audioLevel.n /\ audioLevel.n < audioLevel.d

\* the session is fully initialised
FullSession ==
    /\ streamRef \in liveStreams
    /\ audioContextRef \in openContexts
    /\ analyserRef # Null
    /\ dataArrayRef # NoArray
    /\ isRecording
    /\ animationRef \in frames

\* nothing of a session exists
NoSession ==
    /\ streamRef = Null
    /\ audioContextRef = Null
    /\ ~isRecording

\* C9: when a start attempt has finished, either the session is fully
\* initialised, or the failure was reported and nothing of a session exists
C9_AllOrNothing ==
    lastOp.op \in {"granted", "failed", "rejected"} =>
        \/ ~alertShown /\ FullSession
        \/ alertShown /\ NoSession

\* C10: a rejection of the device request shows the error and leaves
\* everything else as it was: capturing stays false (it stays what it was),
\* permissionGranted keeps its value, no stream, context, buffer or frame is
\* created, and the request is gone without a new one being issued
C10_RejectionOnlyReports ==
    [][lastOp'.op = "rejected" =>
          /\ alertShown'
          /\ ~isRecording => ~isRecording'
          /\ ~isPermissionGranted' => ~isRecording'
          /\ UNCHANGED <<isRecording, isPermissionGranted, streamRef,
                         audioContextRef, analyserRef, dataArrayRef,
                         animationRef, liveStreams, openContexts, frames,
                         audioLevel, pitch>>
          /\ pending' + pendingStopped' = pending + pendingStopped - 1]_vars

\* the only request of a component that never had the permission was
\* rejected
C10_Witness ==
    /\ lastOp.op = "rejected"
    /\ alertShown
    /\ ~isRecording
    /\ ~isPermissionGranted
    /\ pending + pendingStopped = 0
    /\ streamRef = Null /\ liveStreams = {} /\ frames = {}

\* C11: in every reachable state capturing implies permissionGranted; the
\* combination (capturing, no permission) never occurs, whatever the order
\* of starts, stops, grants, denials, faults and teardown
C11_CapturingImpliesGranted ==
    isRecording => isPermissionGranted

\* a session is capturing after its grant, and the permission is recorded
C11_Witness ==
    /\ lastOp.op = "granted"
    /\ isRecording
    /\ isPermissionGranted

\* the handler that ran last was stopRecording, called by the Stop button
\* or by the cleanup of the effect
Stopped == lastOp.op \in {"stop", "unmount"}

\* C12: stop is idempotent: in the state a stop leaves, level and pitch are
\* 0 and capturing is false, and a second stop right after it can run (it
\* fails nowhere) and changes nothing, no resource reference included
C12_StopIdempotent ==
    Stopped =>
        /\ IsZero(audioLevel) /\ IsZero(pitch) /\ ~isRecording
        /\ ENABLED (/\ stopRecording
                    /\ UNCHANGED <<isRecording, audioLevel, pitch,
                                   isPermissionGranted, audioContextRef,
                                   analyserRef, streamRef, animationRef,
                                   dataArrayRef, pending, pendingStopped,
                                   liveStreams, openContexts, frames,
                                   sampleRate, alertShown>>)

\* the cleanup of the effect has run stopRecording on a component that had
\* held a session and holds none now: this stop found nothing to release
\* when it came after the Stop button
C12_Witness ==
    /\ lastOp.op = "unmount"
    /\ isPermissionGranted
    /\ analyserRef # Null
    /\ streamRef = Null /\ audioContextRef = Null /\ animationRef = Null
    /\ ~isRecording

\* C13: after a granted start, any number of frames and a stop, the
\* component is as a freshly mounted one in every component (stream,
\* context, analyser, buffer, frame handle, level, pitch, capturing) except
\* that permissionGranted is true
C13_StopRestoresFresh ==
    (Stopped /\ isPermissionGranted) =>
        /\ streamRef = Null
        /\ audioContextRef = Null
        /\ analyserRef = Null
        /\ dataArrayRef = NoArray
        /\ animationRef = Null
        /\ IsZero(audioLevel)
        /\ IsZero(pitch)
        /\ ~isRecording

\* what the Status Indicator shows in the current state
StatusShown == StatusIndicator(isRecording, isPermissionGranted)

\* C14: the status readout is a total function of (capturing,
\* permissionGranted) that shows exactly one of three states: recording
\* when capturing, ready when idle with the permission granted, and not yet
\* requested when idle without it
C14_StatusReadout ==
    /\ \A c \in BOOLEAN, p \in BOOLEAN : Cardinality(StatusIndicator(c, p)) = 1
    /\ isRecording => StatusShown = {"Recording..."}
    /\ (~isRecording /\ isPermissionGranted) => StatusShown = {"Ready to record"}
    /\ (~isRecording /\ ~isPermissionGranted) =>
           StatusShown = {"Click start to access microphone"}

\* a session was granted and stopped: the readout is the ready state
C14_Witness ==
    /\ lastOp.op = "stop"
    /\ ~isRecording
    /\ isPermissionGranted
    /\ StatusShown = {"Ready to record"}

\* C15: at most one frame callback is pending, and when one is pending
\* animationRef holds its id, so that a stop cancels every pending callback;
\* also when start is invoked again before the first acquisition resolves
C15_OnePendingFrame ==
    /\ Cardinality(frames) <= 1
    /\ frames # {} => frames = {animationRef}

\* C16: every granted stream whose tracks are not stopped is the one
\* streamRef references and every context that is not closed is the one
\* audioContextRef references, so at most one of each is live and none is
\* orphaned, also when two overlapping starts are both granted
C16_NoOrphanedResource ==
    /\ liveStreams \subseteq {streamRef}
    /\ openContexts \subseteq {audioContextRef}
    /\ Cardinality(liveStreams) <= 1
    /\ Cardinality(openContexts) <= 1

\* x and y are the same number
SameNumber(x, y) == x.d > 0 /\ y.d > 0 /\ x.n * y.d = y.n * x.d

\* C17: a frame that runs while the context, the analyser or the buffer is
\* absent is a complete no-op: level and pitch keep their values, no
\* frequency data is read into the buffer, no further frame is scheduled
\* and no fault is raised
C17_AbsentTickIsNoOp ==
    [][(/\ lastOp'.op \in {"frame", "stray"}
        /\ \/ audioContextRef = Null
           \/ analyserRef = Null
           \/ dataArrayRef = NoArray)
       => /\ SameNumber(audioLevel', audioLevel)
          /\ SameNumber(pitch', pitch)
          /\ dataArrayRef' = dataArrayRef
          /\ frames' \subseteq frames
          /\ animationRef' = animationRef
          /\ ~alertShown']_vars

\* the handles a frame callback can have
FrameIds == 1 .. MaxStreams + 1

\* C18: a granted start leaves capturing and permissionGranted true with a
\* frame scheduled; every frame that runs while the session is active
\* schedules the next one under a new handle; so with frames delivered
\* fairly the frame held by animationRef is always run, or the session
\* stopped, and the loop never ends on its own. This holds for the first
\* session and for every later one.
C18_LoopKeepsRunning ==
    /\ [](lastOp.op = "granted" =>
             isRecording /\ isPermissionGranted /\ animationRef \in frames)
    /\ [](isRecording => animationRef \in frames)
    /\ [][(lastOp'.op = "frame" /\ isRecording') =>
             /\ animationRef' \in frames'
             /\ animationRef' # animationRef
             /\ Cardinality(frames') = Cardinality(frames)]_vars
    /\ \A k \in FrameIds :
           (isRecording /\ animationRef = k) ~> (~isRecording \/ animationRef # k)

\* a frame of a second session has run: the context of the first one was
\* closed by a stop, and the loop of the new one holds the only frame
C18_Witness ==
    /\ lastOp.op = "frame"
    /\ isRecording
    /\ isPermissionGranted
    /\ audioContextRef = 2
    /\ openContexts = {2}
    /\ liveStreams = {streamRef}
    /\ frames = {animationRef}

=============================================================================
